---- MODULE Spec2Model ----
(***************************************************************************)
(* State machine of the e-waste digital twin (src/digitaltwin.py): the     *)
(* processing queue, the manual and automatic ProcessNext callers, and the *)
(* per-item simulation threads started by process_next_item.               *)
(*                                                                         *)
(* Units: material quantities are integers in 10^-5 units, recovery rates  *)
(* and efficiencies are percentages.  An item is identified by its         *)
(* position in `items` (the Python object identity of the item dict); its  *)
(* 'id' field is the formatted string category_time_suffix, modelled as    *)
(* the triple <<category, time, suffix>> (the three parts are separated    *)
(* unambiguously since time and suffix are digit strings).                 *)
(*                                                                         *)
(* A request handler or one iteration of auto_process is one step; a       *)
(* simulation thread takes one step per loop iteration and per statement   *)
(* of its bookkeeping, so that the other threads see the states between    *)
(* them.  Progress (step / 20) * 100 is computed on integers; the float    *)
(* result differs from it by rounding errors below 10^-13 and is exactly   *)
(* 0 and 100 at the ends.                                                  *)
(*                                                                         *)
(* Init is the twin as the module constructs it on import; the seeding of  *)
(* the __main__ block is a sequence of add_to_queue calls on that state.   *)
(* The specifications but SpecClock read the clock and do not advance it:  *)
(* all the timestamps are equal, the case in which two items of one        *)
(* category that draw the same suffix get the same id.                     *)
(***************************************************************************)
EXTENDS Integers, Sequences, FiniteSets, TLC

(***************************************************************************)
(* Bounds of the model.                                                    *)
(***************************************************************************)
\* items ever enqueued in Spec and SpecRequests
MaxItems == 2
\* items ever enqueued in SpecCap
MaxItemsCap == 4
\* largest quantity a caller asks for
MaxQuantity == 2
\* number of different id suffixes the random generator returns
MaxSuffixes == 2
\* steps a running simulation of SpecCap may be ahead of another one
MaxSkew == 2
\* items ever enqueued in SpecSingle
MaxItemsSingle == 1
\* days that pass in SpecClock
MaxDays == 1

(***************************************************************************)
(* The category catalog.                                                   *)
(***************************************************************************)
EWASTE_CATEGORIES ==
  [ battery     |-> [materials |-> <<"lithium", "cobalt", "nickel", "aluminum">>,
                     processing_time |-> 15, recovery_rate |-> 85, hazard_level |-> "high"],
    cables      |-> [materials |-> <<"copper", "plastic", "rubber">>,
                     processing_time |-> 8, recovery_rate |-> 92, hazard_level |-> "low"],
    case        |-> [materials |-> <<"steel", "aluminum", "plastic">>,
                     processing_time |-> 12, recovery_rate |-> 88, hazard_level |-> "low"],
    cpu         |-> [materials |-> <<"silicon", "gold", "silver", "copper">>,
                     processing_time |-> 25, recovery_rate |-> 78, hazard_level |-> "medium"],
    cpu_coolers |-> [materials |-> <<"aluminum", "copper", "steel">>,
                     processing_time |-> 10, recovery_rate |-> 90, hazard_level |-> "low"],
    gpu         |-> [materials |-> <<"silicon", "gold", "silver", "copper", "plastic">>,
                     processing_time |-> 30, recovery_rate |-> 75, hazard_level |-> "medium"],
    hdd         |-> [materials |-> <<"aluminum", "steel", "rare_earth_magnets">>,
                     processing_time |-> 18, recovery_rate |-> 82, hazard_level |-> "medium"],
    headset     |-> [materials |-> <<"plastic", "copper", "steel">>,
                     processing_time |-> 6, recovery_rate |-> 85, hazard_level |-> "low"],
    keyboard    |-> [materials |-> <<"plastic", "rubber", "copper">>,
                     processing_time |-> 7, recovery_rate |-> 88, hazard_level |-> "low"],
    laptop      |-> [materials |-> <<"aluminum", "lithium", "gold", "silver", "copper", "plastic">>,
                     processing_time |-> 45, recovery_rate |-> 70, hazard_level |-> "high"],
    microphone  |-> [materials |-> <<"plastic", "copper", "steel">>,
                     processing_time |-> 5, recovery_rate |-> 87, hazard_level |-> "low"],
    monitor     |-> [materials |-> <<"glass", "plastic", "copper", "lead">>,
                     processing_time |-> 35, recovery_rate |-> 73, hazard_level |-> "high"],
    motherboard |-> [materials |-> <<"gold", "silver", "copper", "palladium", "silicon">>,
                     processing_time |-> 40, recovery_rate |-> 68, hazard_level |-> "high"],
    mouse       |-> [materials |-> <<"plastic", "copper", "steel">>,
                     processing_time |-> 4, recovery_rate |-> 90, hazard_level |-> "low"],
    ram         |-> [materials |-> <<"gold", "silver", "copper", "silicon">>,
                     processing_time |-> 20, recovery_rate |-> 80, hazard_level |-> "medium"],
    speakers    |-> [materials |-> <<"plastic", "copper", "magnets">>,
                     processing_time |-> 8, recovery_rate |-> 85, hazard_level |-> "low"],
    webcam      |-> [materials |-> <<"plastic", "copper", "glass">>,
                     processing_time |-> 6, recovery_rate |-> 83, hazard_level |-> "low"] ]

CategoryIds == DOMAIN EWASTE_CATEGORIES

Range(s) == {s[n] : n \in DOMAIN s}

AllMaterials == UNION {Range(EWASTE_CATEGORIES[c].materials) : c \in CategoryIds}

\* the static list of trace materials in complete_processing
TraceMaterials == {"lithium", "cobalt", "nickel", "lead", "gold", "silver", "palladium"}

\* total_steps in complete_processing
total_steps == 20

\* the literal 3 in auto_process
AutoCap == 3

(***************************************************************************)
(* What the callers and the random generator supply in each               *)
(* specification: the categories asked for (one of them unknown to the     *)
(* catalog), the id suffixes random.randint(1000, 9999) returns, and the   *)
(* indices of the random.uniform draws.                                    *)
(***************************************************************************)
UnknownCategory == "toaster"

KnownRequests == {"cables"}

RequestCategories == KnownRequests \cup {UnknownCategory}

Quantities == (-1) .. MaxQuantity

Suffixes == 1000 .. (1000 + MaxSuffixes - 1)

Draws == {0}

(***************************************************************************)
(* Python dicts.                                                           *)
(***************************************************************************)
EmptyDict == [x \in {} |-> 0]

Put(d, key, value) == [x \in DOMAIN d \cup {key} |-> IF x = key THEN value ELSE d[x]]

Del(d, key) == [x \in DOMAIN d \ {key} |-> d[x]]

VARIABLES
  items,                      \* every item dict created so far, in creation order
  processing_queue,           \* digital_twin.processing_queue: item references
  processed_items,            \* digital_twin.processed_items: item references
  active_processes,           \* digital_twin.active_processes: id -> item reference
  total_materials_recovered,  \* digital_twin.total_materials_recovered
  system_status,              \* digital_twin.system_status
  thread,                     \* the complete_processing thread of each item
  clock,                      \* int(time.time()) / datetime.now()
  calls,                      \* the callers inside process_next_item, past line 169
  resp,                       \* what the handler run by the last step returned
  emitted                     \* the socket events published by the last step

vars == <<items, processing_queue, processed_items, active_processes,
          total_materials_recovered, system_status, thread, clock, calls, resp,
          emitted>>

twin == <<items, processing_queue, processed_items, active_processes,
          total_materials_recovered, system_status, thread>>

NoResp == [op |-> "none", category |-> "", quantity |-> 0, result |-> "", item |-> 0]

\* the locals of a complete_processing thread; added keeps the values that
\* `recovered` took, by material; pending names the handler that started the
\* thread until that handler has published processing_started; stats is the
\* part of the dict of get_system_stats built so far; ticks counts the
\* system_stats events the thread has published
NoThread == [pc |-> "none", step |-> 0, k |-> 0, recovered |-> 0, tmp |-> 0,
             materials_recovered |-> EmptyDict, added |-> EmptyDict, pending |-> "",
             stats |-> EmptyDict, ticks |-> 0]

Init ==
  /\ items = <<>>
  /\ processing_queue = <<>>
  /\ processed_items = <<>>
  /\ active_processes = EmptyDict
  /\ total_materials_recovered = [m \in AllMaterials |-> 0]
  /\ system_status = "idle"
  /\ thread = <<>>
  /\ clock = 0
  /\ calls = {}
  /\ resp = NoResp
  /\ emitted = <<>>

(***************************************************************************)
(* add_to_queue                                                            *)
(***************************************************************************)
ItemId(category, time, suffix) == <<category, time, suffix>>

\* a slip: the item is filed under a label in place of its category key
NewItemLabelled(category, time, suffix) ==
  [ id |-> ItemId(category, time, suffix),
    category |-> "e-waste",
    timestamp |-> time,
    status |-> "queued",
    estimated_processing_time |-> EWASTE_CATEGORIES[category].processing_time,
    progress |-> 0 ]

\* lines 156-163
NewItem(category, time, suffix) ==
  [ id |-> ItemId(category, time, suffix),
    category |-> category,
    timestamp |-> time,
    status |-> "queued",
    estimated_processing_time |-> EWASTE_CATEGORIES[category].processing_time,
    progress |-> 0 ]

\* range(quantity)
RangeLen(quantity) == IF quantity > 0 THEN quantity ELSE 0

\* the item references the loop of add_to_queue appends
Appended(base, quantity) == [n \in 1 .. RangeLen(quantity) |-> base + n]

\* add_to_queue raises KeyError in its first iteration, before any append
RaisesKeyError(category, quantity) ==
  category \notin CategoryIds /\ RangeLen(quantity) > 0

\* a slip: insert(0, ...) in place of append
QueueInsertFront(queue, refs) == refs \o queue

\* line 164 for each of them: self.processing_queue.append(item)
QueueAppend(queue, refs) == queue \o refs

add_to_queue(category, quantity, sfx) ==
  /\ items' = items \o [n \in 1 .. RangeLen(quantity) |-> NewItem(category, clock, sfx[n])]
  /\ processing_queue' = QueueAppend(processing_queue, Appended(Len(items), quantity))
  /\ thread' = thread \o [n \in 1 .. RangeLen(quantity) |-> NoThread]

\* POST /api/queue
ApiQueuePost(category, quantity, sfx) ==
  /\ IF category \in CategoryIds
       THEN /\ add_to_queue(category, quantity, sfx)
            /\ emitted' = <<[event |-> "system_stats", item |-> 0]>>
            /\ resp' = [op |-> "api_queue", category |-> category, quantity |-> quantity,
                        result |-> "success", item |-> 0]
       ELSE /\ UNCHANGED <<items, processing_queue, thread>>
            /\ emitted' = <<>>
            /\ resp' = [op |-> "api_queue", category |-> category, quantity |-> quantity,
                        result |-> "Invalid category", item |-> 0]
  /\ UNCHANGED <<processed_items, active_processes, total_materials_recovered,
                 system_status, clock, calls>>

\* socket event 'add_to_queue'
HandleAddToQueue(category, quantity, sfx) ==
  /\ IF RaisesKeyError(category, quantity)
       THEN /\ UNCHANGED <<items, processing_queue, thread>>
            /\ emitted' = <<>>
            /\ resp' = [op |-> "socket_add_to_queue", category |-> category,
                        quantity |-> quantity, result |-> "KeyError", item |-> 0]
       ELSE /\ add_to_queue(category, quantity, sfx)
            /\ emitted' = <<[event |-> "queue_updated", item |-> 0]>>
            /\ resp' = [op |-> "socket_add_to_queue", category |-> category,
                        quantity |-> quantity, result |-> "returned", item |-> 0]
  /\ UNCHANGED <<processed_items, active_processes, total_materials_recovered,
                 system_status, clock, calls>>

\* lines 1565-1567: the seeding of the queue before the server starts, a
\* direct call of add_to_queue
Seed(category, quantity, sfx) ==
  /\ add_to_queue(category, quantity, sfx)
  /\ emitted' = <<>>
  /\ resp' = [op |-> "seed", category |-> category, quantity |-> quantity,
              result |-> "returned", item |-> 0]
  /\ UNCHANGED <<processed_items, active_processes, total_materials_recovered,
                 system_status, clock, calls>>

(***************************************************************************)
(* process_next_item and its callers                                       *)
(***************************************************************************)
\* a slip: the end time is stamped along with the start time
StartedStamped(item, time) ==
  [x \in DOMAIN item \cup {"start_time", "end_time"} |->
     IF x = "status" THEN "processing"
     ELSE IF x \in {"start_time", "end_time"} THEN time
     ELSE item[x]]

\* lines 172-173: the popped item is marked
Started(item, time) ==
  [x \in DOMAIN item \cup {"start_time"} |->
     IF x = "status" THEN "processing"
     ELSE IF x = "start_time" THEN time
     ELSE item[x]]

\* the thread created by threading.Thread(target=self.complete_processing)
NewThread == [NoThread EXCEPT !.pc = "loop"]

\* a slip: processing_queue[0] in place of processing_queue.pop(0)
DequeuedPeek(queue) == queue

\* line 171: what pop(0) leaves in the queue
Dequeued(queue) == Tail(queue)

\* a slip: pop() in place of pop(0)
PoppedLast(queue) == queue[Len(queue)]

\* line 171: what pop(0) returns
Popped(queue) == Head(queue)

\* a slip: the system is marked busy before the queue is looked at
process_next_item_busy_first(ret) ==
  IF processing_queue = <<>>
    THEN /\ ret = 0
         /\ system_status' = "processing"
         /\ UNCHANGED <<items, processing_queue, processed_items, active_processes,
                        total_materials_recovered, thread>>
    ELSE /\ ret = Head(processing_queue)
         /\ processing_queue' = Tail(processing_queue)
         /\ items' = [items EXCEPT ![ret] =
                        [x \in DOMAIN @ \cup {"start_time"} |->
                           IF x = "status" THEN "processing"
                           ELSE IF x = "start_time" THEN clock ELSE @[x]]]
         /\ active_processes' = [x \in DOMAIN active_processes \cup {items[ret].id} |->
                                   IF x = items[ret].id THEN ret ELSE active_processes[x]]
         /\ system_status' = "processing"
         /\ thread' = [thread EXCEPT ![ret].pc = "loop"]
         /\ UNCHANGED <<processed_items, total_materials_recovered>>

\* process_next_item(); ret is the returned item reference, 0 for None, and
\* handler the caller that has yet to publish processing_started ("" when the
\* caller's step includes all it does after the return)
process_next_item_for(ret, handler) ==
  IF processing_queue = <<>>
    THEN /\ ret = 0
         /\ UNCHANGED twin
    ELSE /\ ret = Popped(processing_queue)
         /\ processing_queue' = Dequeued(processing_queue)
         /\ items' = [items EXCEPT ![ret] = Started(items[ret], clock)]
         /\ active_processes' = Put(active_processes, items[ret].id, ret)
         /\ system_status' = "processing"
         /\ thread' = [thread EXCEPT ![ret] = [NewThread EXCEPT !.pending = handler]]
         /\ UNCHANGED <<processed_items, total_materials_recovered>>

process_next_item(ret) == process_next_item_for(ret, "")

\* GET /api/process
ApiProcess ==
  \E ret \in 0 .. Len(items) :
    /\ process_next_item(ret)
    /\ IF ret # 0
         THEN /\ emitted' = <<[event |-> "processing_started", item |-> ret]>>
              /\ resp' = [op |-> "api_process", category |-> "", quantity |-> 0,
                          result |-> "success", item |-> ret]
         ELSE /\ emitted' = <<>>
              /\ resp' = [op |-> "api_process", category |-> "", quantity |-> 0,
                          result |-> "No items in queue", item |-> 0]
    /\ UNCHANGED <<clock, calls>>

\* socket event 'start_processing'
HandleStartProcessing ==
  \E ret \in 0 .. Len(items) :
    /\ process_next_item(ret)
    /\ IF ret # 0
         THEN /\ emitted' = <<[event |-> "processing_started", item |-> ret]>>
              /\ resp' = [op |-> "socket_start_processing", category |-> "",
                          quantity |-> 0, result |-> "started", item |-> ret]
         ELSE /\ emitted' = <<>>
              /\ resp' = [op |-> "socket_start_processing", category |-> "",
                          quantity |-> 0, result |-> "None", item |-> 0]
    /\ UNCHANGED <<clock, calls>>

\* what a handler answers after process_next_item returned ret
ProcessResult(op, ret) ==
  IF op = "api_process"
    THEN IF ret # 0 THEN "success" ELSE "No items in queue"
    ELSE IF ret # 0 THEN "started" ELSE "None"

\* lines 1506 and 1540: a handler as far as the return of process_next_item,
\* when the thread started at line 178 runs before the handler goes on
ProcessCall(op) ==
  \E ret \in 0 .. Len(items) :
    /\ process_next_item_for(ret, op)
    /\ emitted' = <<>>
    /\ resp' = [op |-> op, category |-> "", quantity |-> 0,
                result |-> IF ret # 0 THEN "pending" ELSE ProcessResult(op, ret),
                item |-> ret]
    /\ UNCHANGED <<clock, calls>>

\* lines 1507-1509 and 1541-1542: the handler publishes processing_started
ProcessEmit(i) ==
  /\ i \in 1 .. Len(items)
  /\ thread[i].pending # ""
  /\ thread' = [thread EXCEPT ![i].pending = ""]
  /\ emitted' = <<[event |-> "processing_started", item |-> i]>>
  /\ resp' = [op |-> thread[i].pending, category |-> "", quantity |-> 0,
              result |-> ProcessResult(thread[i].pending, i), item |-> i]
  /\ UNCHANGED <<items, processing_queue, processed_items, active_processes,
                 total_materials_recovered, system_status, clock, calls>>

\* a slip: the bound of the condition is inclusive
AutoMayStartInclusive ==
  processing_queue # <<>> /\ Cardinality(DOMAIN active_processes) <= AutoCap

\* the condition of auto_process (line 1556)
AutoMayStart ==
  processing_queue # <<>> /\ Cardinality(DOMAIN active_processes) < AutoCap

\* one iteration of the loop of auto_process
AutoProcess ==
  /\ IF AutoMayStart
       THEN \E ret \in 0 .. Len(items) :
              /\ process_next_item(ret)
              /\ resp' = [op |-> "auto_process", category |-> "", quantity |-> 0,
                          result |-> "started", item |-> ret]
       ELSE /\ UNCHANGED twin
            /\ resp' = [op |-> "auto_process", category |-> "", quantity |-> 0,
                        result |-> "skipped", item |-> 0]
  /\ emitted' = <<[event |-> "system_stats", item |-> 0]>>
  /\ UNCHANGED <<clock, calls>>

\* the callers of process_next_item that run on threads of their own: a
\* request handler and the background driver
Callers == {"api_process", "auto_process"}

\* lines 168-169, after line 1556 for the driver: the caller tests the queue
\* and returns, or goes on to line 171
ProcessCheck(op) ==
  /\ op \notin calls
  /\ IF processing_queue # <<>> /\ (op = "auto_process" => AutoMayStart)
       THEN /\ calls' = calls \cup {op}
            /\ resp' = NoResp
            /\ emitted' = <<>>
       ELSE /\ UNCHANGED calls
            /\ resp' = [op |-> op, category |-> "", quantity |-> 0,
                        result |-> IF op = "auto_process" THEN "skipped"
                                   ELSE ProcessResult(op, 0),
                        item |-> 0]
            /\ emitted' = IF op = "auto_process"
                            THEN <<[event |-> "system_stats", item |-> 0]>>
                            ELSE <<>>
  /\ UNCHANGED <<twin, clock>>

\* lines 171-180 and the rest of the caller: pop(0) of an empty list raises
\* IndexError
ProcessPop(op) ==
  /\ op \in calls
  /\ calls' = calls \ {op}
  /\ IF processing_queue = <<>>
       THEN /\ UNCHANGED twin
            /\ resp' = [op |-> op, category |-> "", quantity |-> 0,
                        result |-> "IndexError", item |-> 0]
            /\ emitted' = <<>>
       ELSE \E ret \in 1 .. Len(items) :
              /\ process_next_item(ret)
              /\ resp' = [op |-> op, category |-> "", quantity |-> 0,
                          result |-> IF op = "auto_process" THEN "started"
                                     ELSE ProcessResult(op, ret),
                          item |-> ret]
              /\ emitted' = IF op = "auto_process"
                              THEN <<[event |-> "system_stats", item |-> 0]>>
                              ELSE <<[event |-> "processing_started", item |-> ret]>>
  /\ UNCHANGED clock

(***************************************************************************)
(* complete_processing: the simulation thread of item i                    *)
(***************************************************************************)
\* a slip: steps counted from 1
ProgressFromOne(step) == ((step + 1) * 100) \div total_steps

\* line 189: item['progress'] = (step / total_steps) * 100
Progress(step) == (step * 100) \div total_steps

\* random.uniform(10, 100), replaced by random.uniform(0.001, 0.05) for a
\* trace material: the ends of the range
BaseLo(material) == IF material \in TraceMaterials THEN 100 ELSE 1000000

BaseHi(material) == IF material \in TraceMaterials THEN 5000 ELSE 10000000

\* line 200: base_amount * recovery_rate * random.uniform(0.8, 1.2); draw 0 is
\* the low end of both ranges, draw 1 the high end, draw 2 a value between
Recovered(category, material, draw) ==
  LET rate == EWASTE_CATEGORIES[category].recovery_rate
      lo == (((BaseLo(material) * rate) \div 100) * 8) \div 10
      hi == (((BaseHi(material) * rate) \div 100) * 12) \div 10
  IN  IF draw = 0 THEN lo ELSE IF draw = 1 THEN hi ELSE lo + 13

\* round(recovered, 4)
Round4(x) == ((x + 5) \div 10) * 10

\* line 210: random.uniform(0.7, 0.95)
Efficiency(draw) == IF draw = 0 THEN 70 ELSE IF draw = 1 THEN 95 ELSE 83

Running(i, pc) == i \in 1 .. Len(items) /\ thread[i].pc = pc

MaterialsOf(i) == EWASTE_CATEGORIES[items[i].category].materials

\* a slip: range(total_steps) in place of range(total_steps + 1)
LoopStepShort(i) ==
  /\ Running(i, "loop")
  /\ items' = [items EXCEPT ![i].progress = Progress(thread[i].step)]
  /\ thread' = [thread EXCEPT ![i] =
                  IF thread[i].step < total_steps - 1
                    THEN [@ EXCEPT !.step = @ + 1, !.ticks = @ + 1]
                    ELSE [@ EXCEPT !.pc = "material", !.k = 1, !.ticks = @ + 1]]
  /\ emitted' = <<[event |-> "system_stats", item |-> 0]>>
  /\ resp' = NoResp
  /\ UNCHANGED <<processing_queue, processed_items, active_processes,
                 total_materials_recovered, system_status, clock, calls>>

\* lines 188-191: one iteration of the progress loop
LoopStep(i) ==
  /\ Running(i, "loop")
  /\ items' = [items EXCEPT ![i].progress = Progress(thread[i].step)]
  /\ thread' = [thread EXCEPT ![i] =
                  IF thread[i].step < total_steps
                    THEN [@ EXCEPT !.step = @ + 1, !.ticks = @ + 1]
                    ELSE [@ EXCEPT !.pc = "material", !.k = 1, !.ticks = @ + 1]]
  /\ emitted' = <<[event |-> "system_stats", item |-> 0]>>
  /\ resp' = NoResp
  /\ UNCHANGED <<processing_queue, processed_items, active_processes,
                 total_materials_recovered, system_status, clock, calls>>

\* where the thread goes after the k-th material
AfterMaterial(i, t) ==
  IF t.k < Len(MaterialsOf(i))
    THEN [t EXCEPT !.pc = "material", !.k = @ + 1, !.recovered = 0, !.tmp = 0]
    ELSE [t EXCEPT !.pc = "complete", !.recovered = 0, !.tmp = 0]

\* lines 195-205 for the k-th material, line 205 taken as one step
Accumulate(i, draw) ==
  /\ Running(i, "material")
  /\ LET material == MaterialsOf(i)[thread[i].k]
         recovered == Recovered(items[i].category, material, draw)
         totals == IF material \notin DOMAIN total_materials_recovered
                     THEN Put(total_materials_recovered, material, 0)
                     ELSE total_materials_recovered
     IN  /\ total_materials_recovered' = Put(totals, material, totals[material] + recovered)
         /\ thread' = [thread EXCEPT ![i] =
                         AfterMaterial(i, [@ EXCEPT !.materials_recovered =
                                                      Put(@, material, Round4(recovered)),
                                                    !.added = Put(@, material, recovered)])]
  /\ emitted' = <<>>
  /\ resp' = NoResp
  /\ UNCHANGED <<items, processing_queue, processed_items, active_processes,
                 system_status, clock, calls>>

\* lines 195-204 and the load of line 205 for the k-th material, when the
\* interpreter switches threads between the load and the store of line 205
MaterialRead(i, draw) ==
  /\ Running(i, "material")
  /\ LET material == MaterialsOf(i)[thread[i].k]
         recovered == Recovered(items[i].category, material, draw)
         totals == IF material \notin DOMAIN total_materials_recovered
                     THEN Put(total_materials_recovered, material, 0)
                     ELSE total_materials_recovered
     IN  /\ total_materials_recovered' = totals
         /\ thread' = [thread EXCEPT ![i] =
                         [@ EXCEPT !.pc = "store",
                                   !.recovered = recovered,
                                   !.tmp = totals[material],
                                   !.materials_recovered =
                                      Put(@, material, Round4(recovered)),
                                   !.added = Put(@, material, recovered)]]
  /\ emitted' = <<>>
  /\ resp' = NoResp
  /\ UNCHANGED <<items, processing_queue, processed_items, active_processes,
                 system_status, clock, calls>>

\* the add and store of line 205
MaterialStore(i) ==
  /\ Running(i, "store")
  /\ LET material == MaterialsOf(i)[thread[i].k]
     IN  total_materials_recovered' =
           Put(total_materials_recovered, material, thread[i].tmp + thread[i].recovered)
  /\ thread' = [thread EXCEPT ![i] = AfterMaterial(i, @)]
  /\ emitted' = <<>>
  /\ resp' = NoResp
  /\ UNCHANGED <<items, processing_queue, processed_items, active_processes,
                 system_status, clock, calls>>

\* a slip: the completion is announced as soon as the status is set
MarkCompletedAnnounced(i) ==
  /\ Running(i, "complete")
  /\ items' = [items EXCEPT ![i].status = "completed"]
  /\ thread' = [thread EXCEPT ![i].pc = "record"]
  /\ emitted' = <<[event |-> "processing_complete", item |-> i]>>
  /\ resp' = NoResp
  /\ UNCHANGED <<processing_queue, processed_items, active_processes,
                 total_materials_recovered, system_status, clock, calls>>

\* a slip: the item to mark is looked up in the active set under its id
MarkCompletedById(i) ==
  /\ Running(i, "complete")
  /\ LET j == IF items[i].id \in DOMAIN active_processes
                THEN active_processes[items[i].id] ELSE i
     IN  items' = [items EXCEPT ![j].status = "completed"]
  /\ thread' = [thread EXCEPT ![i].pc = "record"]
  /\ emitted' = <<>>
  /\ resp' = NoResp
  /\ UNCHANGED <<processing_queue, processed_items, active_processes,
                 total_materials_recovered, system_status, clock, calls>>

\* line 207
MarkCompleted(i) ==
  /\ Running(i, "complete")
  /\ items' = [items EXCEPT ![i].status = "completed"]
  /\ thread' = [thread EXCEPT ![i].pc = "record"]
  /\ emitted' = <<>>
  /\ resp' = NoResp
  /\ UNCHANGED <<processing_queue, processed_items, active_processes,
                 total_materials_recovered, system_status, clock, calls>>

\* a slip: the item is given the totals of the twin, not its own quantities
RecordedTotals(item, time, materials_recovered, efficiency) ==
  [x \in DOMAIN item \cup {"end_time", "materials_recovered", "recovery_efficiency"} |->
     IF x = "end_time" THEN time
     ELSE IF x = "materials_recovered" THEN total_materials_recovered
     ELSE IF x = "recovery_efficiency" THEN efficiency
     ELSE item[x]]

\* lines 208-210
Recorded(item, time, materials_recovered, efficiency) ==
  [x \in DOMAIN item \cup {"end_time", "materials_recovered", "recovery_efficiency"} |->
     IF x = "end_time" THEN time
     ELSE IF x = "materials_recovered" THEN materials_recovered
     ELSE IF x = "recovery_efficiency" THEN efficiency
     ELSE item[x]]

RecordResult(i, draw) ==
  /\ Running(i, "record")
  /\ items' = [items EXCEPT ![i] =
                 Recorded(@, clock, thread[i].materials_recovered, Efficiency(draw))]
  /\ thread' = [thread EXCEPT ![i].pc = "append"]
  /\ emitted' = <<>>
  /\ resp' = NoResp
  /\ UNCHANGED <<processing_queue, processed_items, active_processes,
                 total_materials_recovered, system_status, clock, calls>>

\* a slip: the completed item is not put into the history
AppendProcessedSkipped(i) ==
  /\ Running(i, "append")
  /\ thread' = [thread EXCEPT ![i].pc = "remove"]
  /\ emitted' = <<>>
  /\ resp' = NoResp
  /\ UNCHANGED <<items, processing_queue, processed_items, active_processes,
                 total_materials_recovered, system_status, clock, calls>>

\* a slip: the completed item is put into the history twice
AppendProcessedTwice(i) ==
  /\ Running(i, "append")
  /\ processed_items' = processed_items \o <<i, i>>
  /\ thread' = [thread EXCEPT ![i].pc = "remove"]
  /\ emitted' = <<>>
  /\ resp' = NoResp
  /\ UNCHANGED <<items, processing_queue, active_processes,
                 total_materials_recovered, system_status, clock, calls>>

\* line 212
AppendProcessed(i) ==
  /\ Running(i, "append")
  /\ processed_items' = Append(processed_items, i)
  /\ thread' = [thread EXCEPT ![i].pc = "remove"]
  /\ emitted' = <<>>
  /\ resp' = NoResp
  /\ UNCHANGED <<items, processing_queue, active_processes,
                 total_materials_recovered, system_status, clock, calls>>

\* a slip: the completion also takes the next item off the queue
RemoveActiveDropsHead(i) ==
  /\ Running(i, "remove")
  /\ active_processes' = IF items[i].id \in DOMAIN active_processes
                           THEN Del(active_processes, items[i].id)
                           ELSE active_processes
  /\ processing_queue' = IF processing_queue = <<>> THEN <<>> ELSE Tail(processing_queue)
  /\ thread' = [thread EXCEPT ![i].pc = "status"]
  /\ emitted' = <<>>
  /\ resp' = NoResp
  /\ UNCHANGED <<items, processed_items, total_materials_recovered, system_status, clock, calls>>

\* a slip: the entry of the item stays in the active set
RemoveActiveKept(i) ==
  /\ Running(i, "remove")
  /\ thread' = [thread EXCEPT ![i].pc = "status"]
  /\ emitted' = <<>>
  /\ resp' = NoResp
  /\ UNCHANGED <<items, processing_queue, processed_items, active_processes,
                 total_materials_recovered, system_status, clock, calls>>

\* lines 213-214
RemoveActive(i) ==
  /\ Running(i, "remove")
  /\ active_processes' = IF items[i].id \in DOMAIN active_processes
                           THEN Del(active_processes, items[i].id)
                           ELSE active_processes
  /\ thread' = [thread EXCEPT ![i].pc = "status"]
  /\ emitted' = <<>>
  /\ resp' = NoResp
  /\ UNCHANGED <<items, processing_queue, processed_items,
                 total_materials_recovered, system_status, clock, calls>>

\* a slip: the test for the empty system is left out
StatusAfterNoIdle(active, queue, status) ==
  IF queue # <<>> THEN "ready" ELSE status

\* lines 216-219
StatusAfter(active, queue, status) ==
  IF active = EmptyDict /\ queue = <<>> THEN "idle"
  ELSE IF queue # <<>> THEN "ready"
  ELSE status

UpdateStatus(i) ==
  /\ Running(i, "status")
  /\ system_status' = StatusAfter(active_processes, processing_queue, system_status)
  /\ thread' = [thread EXCEPT ![i].pc = "emit"]
  /\ emitted' = <<>>
  /\ resp' = NoResp
  /\ UNCHANGED <<items, processing_queue, processed_items, active_processes,
                 total_materials_recovered, clock, calls>>

\* line 221
EmitComplete(i) ==
  /\ Running(i, "emit")
  /\ thread' = [thread EXCEPT ![i].pc = "done"]
  /\ emitted' = <<[event |-> "processing_complete", item |-> i]>>
  /\ resp' = NoResp
  /\ UNCHANGED <<items, processing_queue, processed_items, active_processes,
                 total_materials_recovered, system_status, clock, calls>>

\* lines 189-190 when socketio.emit raises: the exception ends the thread,
\* which has no try/finally
LoopFault(i) ==
  /\ Running(i, "loop")
  /\ items' = [items EXCEPT ![i].progress = Progress(thread[i].step)]
  /\ thread' = [thread EXCEPT ![i].pc = "aborted"]
  /\ emitted' = <<>>
  /\ resp' = NoResp
  /\ UNCHANGED <<processing_queue, processed_items, active_processes,
                 total_materials_recovered, system_status, clock, calls>>

(***************************************************************************)
(* get_system_stats and its callers                                        *)
(***************************************************************************)
\* a slip: the times are compared, not their dates
DateToTheSecond(time) == time

\* .date() of a time in seconds
Date(time) == time \div 86400

\* the items of the history, oldest first
ProcessedRecords == [n \in 1 .. Len(processed_items) |-> items[processed_items[n]]]

\* lines 245-250: the amounts of a material that the first n items of the
\* history recorded for a category
RECURSIVE BreakdownAmount(_, _, _)
BreakdownAmount(category, material, n) ==
  IF n = 0 THEN 0
  ELSE LET item == ProcessedRecords[n]
           amount == IF /\ item.category = category
                        /\ "materials_recovered" \in DOMAIN item
                        /\ material \in DOMAIN item.materials_recovered
                       THEN item.materials_recovered[material]
                       ELSE 0
       IN  BreakdownAmount(category, material, n - 1) + amount

\* lines 239-251
get_categories_breakdown ==
  [cat \in CategoryIds |->
     LET mine == {n \in 1 .. Len(processed_items) : ProcessedRecords[n].category = cat}
         keys == UNION {DOMAIN ProcessedRecords[n].materials_recovered :
                          n \in {x \in mine : "materials_recovered" \in DOMAIN ProcessedRecords[x]}}
     IN  [count |-> Cardinality(mine),
          total_materials |->
            [material \in keys |-> BreakdownAmount(cat, material, Len(processed_items))]]]

\* lines 223-237
get_system_stats ==
  [queue_length |-> Len(processing_queue),
   active_processes |-> Cardinality(DOMAIN active_processes),
   completed_today |->
     Cardinality({n \in 1 .. Len(processed_items) :
                    Date(ProcessedRecords[n].timestamp) = Date(clock)}),
   total_processed |-> Len(processed_items),
   system_status |-> system_status,
   total_materials_recovered |->
     [k \in DOMAIN total_materials_recovered |-> Round4(total_materials_recovered[k])],
   categories_breakdown |-> get_categories_breakdown,
   processing_queue |-> [n \in 1 .. Len(processing_queue) |-> items[processing_queue[n]]],
   active_items |-> {items[active_processes[id]] : id \in DOMAIN active_processes},
   processed_items |-> ProcessedRecords]

\* a slip: the history is emptied once it has been reported
ApiStatsDraining ==
  /\ resp' = [op |-> "api_stats", stats |-> get_system_stats]
  /\ emitted' = <<>>
  /\ processed_items' = <<>>
  /\ UNCHANGED <<items, processing_queue, active_processes,
                 total_materials_recovered, system_status, thread, clock, calls>>

\* GET /api/stats
ApiStats ==
  /\ resp' = [op |-> "api_stats", stats |-> get_system_stats]
  /\ emitted' = <<>>
  /\ UNCHANGED <<twin, clock, calls>>

\* socket event 'connect'
HandleConnect ==
  /\ resp' = [op |-> "socket_connect", stats |-> get_system_stats]
  /\ emitted' = <<[event |-> "system_stats", item |-> 0]>>
  /\ UNCHANGED <<twin, clock, calls>>

\* the entries of the dict of get_system_stats evaluated first (lines 226-232)
StatsFirstKeys == {"queue_length", "active_processes", "completed_today",
                   "total_processed", "system_status", "total_materials_recovered"}

\* lines 189-190, as far as line 232 of get_system_stats, when other threads
\* run before the remaining entries of the dict are evaluated
LoopRead(i) ==
  /\ Running(i, "loop")
  /\ items' = [items EXCEPT ![i].progress = Progress(thread[i].step)]
  /\ thread' = [thread EXCEPT ![i] =
                  [@ EXCEPT !.pc = "stats",
                            !.stats = [k \in StatsFirstKeys |-> get_system_stats[k]]]]
  /\ emitted' = <<>>
  /\ resp' = NoResp
  /\ UNCHANGED <<processing_queue, processed_items, active_processes,
                 total_materials_recovered, system_status, clock, calls>>

\* lines 233-236 of get_system_stats and the rest of lines 190-191
LoopEmit(i) ==
  /\ Running(i, "stats")
  /\ thread' = [thread EXCEPT ![i] =
                  IF thread[i].step < total_steps
                    THEN [@ EXCEPT !.pc = "loop", !.step = @ + 1, !.stats = EmptyDict,
                                   !.ticks = @ + 1]
                    ELSE [@ EXCEPT !.pc = "material", !.k = 1, !.stats = EmptyDict,
                                   !.ticks = @ + 1]]
  /\ emitted' = <<[event |-> "system_stats", item |-> 0,
                   stats |-> [k \in DOMAIN get_system_stats |->
                                IF k \in StatsFirstKeys THEN thread[i].stats[k]
                                ELSE get_system_stats[k]]]>>
  /\ resp' = NoResp
  /\ UNCHANGED <<items, processing_queue, processed_items, active_processes,
                 total_materials_recovered, system_status, clock, calls>>

(***************************************************************************)
(* Specifications                                                          *)
(*                                                                         *)
(* Spec: callers enqueue items of a known category, call ProcessNext over  *)
(* HTTP and the socket, the background driver runs, and the simulation     *)
(* threads interleave freely, with at most MaxItems items; the update of   *)
(* a material total (line 205) is one step.                                *)
(* SpecRace: as Spec, with items of two categories that share their         *)
(* materials, and a thread switch can separate the load from the store of  *)
(* line 205; what is said of the material totals is checked here.          *)
(* SpecSingle: at most MaxItemsSingle items, of a category with and one     *)
(* without a trace material, each processed alone: ProcessNext is called   *)
(* only while no simulation is under way; the random draws behind the      *)
(* recovered amounts fall on the ends of their ranges and between them.    *)
(* SpecEmit: as Spec, and the thread started by process_next_item can run   *)
(* before the calling handler publishes processing_started.                *)
(* SpecStats: items with pairwise different ids are enqueued and started    *)
(* over HTTP, the simulation threads interleave freely, and clients fetch  *)
(* the statistics over HTTP and on connecting to the socket.               *)
(* SpecSnapshot: as SpecStats, and the simulations of other items run       *)
(* while a simulation builds the statistics it publishes with a tick.      *)
(* SpecFair: items with pairwise different ids are enqueued and started    *)
(* over HTTP, and while some simulation thread can take a step, one of     *)
(* them eventually does: the threads only compute, sleep for a bounded     *)
(* time and publish, and the scheduler of the interpreter runs them.       *)
(* SpecFault: as Spec, and the broadcast of a tick can raise.               *)
(* SpecSeed: as Spec, and the program is run as a script, which seeds the   *)
(* queue by calling add_to_queue before it serves requests.                *)
(* SpecFrame: as SpecStats, and the callers also send unknown categories    *)
(* and quantities below 1, over HTTP and over the socket.                  *)
(* SpecRequests: as Spec, and the callers also send unknown categories and *)
(* quantities below 1.                                                     *)
(* SpecCap: up to MaxItemsCap items with pairwise different ids, started   *)
(* together: ProcessNext is called only while every unfinished simulation  *)
(* has taken fewer than MaxSkew steps, and no unfinished simulation gets   *)
(* MaxSkew or more steps ahead of another one (the simulations sleep       *)
(* between steps, so the ones started together advance together).          *)
(***************************************************************************)
Room(quantity, maxItems) == Len(items) + RangeLen(quantity) <= maxItems

UsedSuffixes == {items[i].id[3] : i \in 1 .. Len(items)}

\* Nothing depends on a suffix but its equality with another one, so the
\* draws are taken in order of first use: a draw is a suffix drawn before or
\* the smallest one not drawn yet.
FirstUse(sfx) ==
  \A n \in DOMAIN sfx :
    sfx[n] <= 1000 + Cardinality(UsedSuffixes \cup {sfx[m] : m \in 1 .. (n - 1)})

SuffixDraws(quantity) == {sfx \in [1 .. RangeLen(quantity) -> Suffixes] : FirstUse(sfx)}

Enqueue ==
  \E category \in KnownRequests, quantity \in 1 .. MaxQuantity :
    /\ Room(quantity, MaxItems)
    /\ \E sfx \in SuffixDraws(quantity) :
         \/ ApiQueuePost(category, quantity, sfx)
         \/ HandleAddToQueue(category, quantity, sfx)

Finish(i) ==
  \/ MarkCompleted(i)
  \/ \E draw \in Draws : RecordResult(i, draw)
  \/ AppendProcessed(i)
  \/ RemoveActive(i)
  \/ UpdateStatus(i)
  \/ EmitComplete(i)

Simulate ==
  \E i \in 1 .. Len(items) :
    \/ LoopStep(i)
    \/ \E draw \in Draws : Accumulate(i, draw)
    \/ Finish(i)

Next ==
  \/ Enqueue
  \/ ApiProcess
  \/ HandleStartProcessing
  \/ AutoProcess
  \/ Simulate

Spec == Init /\ [][Next]_vars

NextFault ==
  \/ Next
  \/ \E i \in 1 .. Len(items) : LoopFault(i)

SpecFault == Init /\ [][NextFault]_vars

\* the __main__ block runs once, before any request is served; one call of
\* its loop
Seeding ==
  /\ items = <<>>
  /\ \E category \in KnownRequests, quantity \in 1 .. MaxQuantity :
       /\ Room(quantity, MaxItems)
       /\ \E sfx \in SuffixDraws(quantity) : Seed(category, quantity, sfx)

NextSeed ==
  \/ Seeding
  \/ Next

SpecSeed == Init /\ [][NextSeed]_vars

EnqueueRequests ==
  \E category \in RequestCategories, quantity \in Quantities :
    /\ Room(quantity, MaxItems)
    /\ \E sfx \in SuffixDraws(quantity) :
         \/ ApiQueuePost(category, quantity, sfx)
         \/ HandleAddToQueue(category, quantity, sfx)

NextRequests ==
  \/ EnqueueRequests
  \/ ApiProcess
  \/ HandleStartProcessing
  \/ AutoProcess
  \/ Simulate

SpecRequests == Init /\ [][NextRequests]_vars

SimulateRace ==
  \E i \in 1 .. Len(items) :
    \/ LoopStep(i)
    \/ \E draw \in Draws : Accumulate(i, draw)
    \/ \E draw \in Draws : MaterialRead(i, draw)
    \/ MaterialStore(i)
    \/ Finish(i)

\* two categories that yield the same materials at different recovery rates
SharedRequests == {"cables", "keyboard"}

EnqueueRace ==
  \E category \in SharedRequests, quantity \in 1 .. MaxQuantity :
    /\ Room(quantity, MaxItems)
    /\ \E sfx \in SuffixDraws(quantity) :
         \/ ApiQueuePost(category, quantity, sfx)
         \/ HandleAddToQueue(category, quantity, sfx)

NextRace ==
  \/ EnqueueRace
  \/ ApiProcess
  \/ HandleStartProcessing
  \/ AutoProcess
  \/ SimulateRace

SpecRace == Init /\ [][NextRace]_vars

NextEmit ==
  \/ Enqueue
  \/ ProcessCall("api_process")
  \/ ProcessCall("socket_start_processing")
  \/ \E i \in 1 .. Len(items) : ProcessEmit(i)
  \/ AutoProcess
  \/ Simulate

SpecEmit == Init /\ [][NextEmit]_vars

SingleRequests == {"cables", "monitor"}

\* random.uniform: the low end, the high end, a value between
WideDraws == {0, 1, 2}

EnqueueSingle ==
  \E category \in SingleRequests, quantity \in 1 .. MaxQuantity :
    /\ Room(quantity, MaxItemsSingle)
    /\ \E sfx \in SuffixDraws(quantity) :
         \/ ApiQueuePost(category, quantity, sfx)
         \/ HandleAddToQueue(category, quantity, sfx)

SimulateSingle ==
  \E i \in 1 .. Len(items) :
    \/ LoopStep(i)
    \/ \E draw \in WideDraws : Accumulate(i, draw)
    \/ MarkCompleted(i)
    \/ \E draw \in Draws : RecordResult(i, draw)
    \/ AppendProcessed(i)
    \/ RemoveActive(i)
    \/ UpdateStatus(i)
    \/ EmitComplete(i)

\* no simulation is under way
Alone == \A i \in 1 .. Len(items) : thread[i].pc \in {"none", "done"}

NextSingle ==
  \/ EnqueueSingle
  \/ Alone /\ ApiProcess
  \/ Alone /\ HandleStartProcessing
  \/ Alone /\ AutoProcess
  \/ SimulateSingle

SpecSingle == Init /\ [][NextSingle]_vars

FreshSuffixes(quantity) == [n \in 1 .. RangeLen(quantity) |-> 1000 + Len(items) + n - 1]

EnqueueCap ==
  \E category \in KnownRequests, quantity \in 1 .. MaxQuantity :
    /\ Room(quantity, MaxItemsCap)
    /\ \/ ApiQueuePost(category, quantity, FreshSuffixes(quantity))
       \/ HandleAddToQueue(category, quantity, FreshSuffixes(quantity))

EnqueueStats ==
  \E category \in KnownRequests, quantity \in 1 .. MaxQuantity :
    /\ Room(quantity, MaxItems)
    /\ ApiQueuePost(category, quantity, FreshSuffixes(quantity))

NextStats ==
  \/ EnqueueStats
  \/ ApiProcess
  \/ Simulate
  \/ ApiStats
  \/ HandleConnect

SpecStats == Init /\ [][NextStats]_vars

SimulateSnapshot ==
  \E i \in 1 .. Len(items) :
    \/ LoopRead(i)
    \/ LoopEmit(i)
    \/ \E draw \in Draws : Accumulate(i, draw)
    \/ Finish(i)

NextSnapshot ==
  \/ EnqueueStats
  \/ ApiProcess
  \/ SimulateSnapshot
  \/ ApiStats

SpecSnapshot == Init /\ [][NextSnapshot]_vars

\* datetime.now() and time.time() (lines 157, 159, 173, 208, 229): half a day
\* passes
AdvanceClock ==
  /\ clock < MaxDays * 86400
  /\ clock' = clock + 43200
  /\ UNCHANGED calls
  /\ resp' = NoResp
  /\ emitted' = <<>>
  /\ UNCHANGED twin

\* the simulations run one after the other here: the count of
\* completed_today does not depend on how they interleave
NextClock ==
  \/ EnqueueStats
  \/ Alone /\ ApiProcess
  \/ Simulate
  \/ ApiStats
  \/ AdvanceClock

SpecClock == Init /\ [][NextClock]_vars

EnqueueFrame ==
  \E category \in RequestCategories, quantity \in Quantities :
    /\ Room(quantity, MaxItems)
    /\ \/ ApiQueuePost(category, quantity, FreshSuffixes(quantity))
       \/ HandleAddToQueue(category, quantity, FreshSuffixes(quantity))

NextFrame ==
  \/ EnqueueFrame
  \/ ApiProcess
  \/ Simulate
  \/ ApiStats

SpecFrame == Init /\ [][NextFrame]_vars

NextFair ==
  \/ EnqueueStats
  \/ ApiProcess
  \/ Simulate

SpecFair == Init /\ [][NextFair]_vars /\ WF_vars(Simulate)

\* the number of steps the simulation thread of item i has taken
StepsTaken(i) ==
  LET t == thread[i]
      n == Len(MaterialsOf(i))
      after == total_steps + 1 + 2 * n
  IN  CASE t.pc = "loop" -> t.step
        [] t.pc = "material" -> total_steps + 1 + 2 * (t.k - 1)
        [] t.pc = "store" -> total_steps + 2 + 2 * (t.k - 1)
        [] t.pc = "complete" -> after
        [] t.pc = "record" -> after + 1
        [] t.pc = "append" -> after + 2
        [] t.pc = "remove" -> after + 3
        [] t.pc = "status" -> after + 4
        [] t.pc = "emit" -> after + 5
        [] OTHER -> 0

Unfinished == {i \in 1 .. Len(items) : thread[i].pc \notin {"none", "done"}}

InStep(i) == \A j \in Unfinished : StepsTaken(i) < StepsTaken(j) + MaxSkew

SimulateCap ==
  \E i \in Unfinished :
    /\ InStep(i)
    /\ \/ LoopStep(i)
       \/ \E draw \in Draws : Accumulate(i, draw)
       \/ Finish(i)

Together == \A j \in Unfinished : StepsTaken(j) < MaxSkew

NextCap ==
  \/ EnqueueCap
  \/ Together /\ ApiProcess
  \/ Together /\ HandleStartProcessing
  \/ Together /\ AutoProcess
  \/ SimulateCap

SpecCap == Init /\ [][NextCap]_vars

\* a request handler and the background driver call process_next_item on
\* their own threads
NextCalls ==
  \/ EnqueueStats
  \/ \E op \in Callers : ProcessCheck(op)
  \/ \E op \in Callers : ProcessPop(op)
  \/ Simulate

SpecCalls == Init /\ [][NextCalls]_vars

\* the background driver is the only caller of process_next_item: nobody
\* posts to /api/process or sends 'start_processing'
EnqueueAuto ==
  \E category \in KnownRequests, quantity \in 1 .. MaxQuantity :
    /\ Room(quantity, MaxItemsCap)
    /\ ApiQueuePost(category, quantity, FreshSuffixes(quantity))

NextAuto ==
  \/ EnqueueAuto
  \/ Together /\ AutoProcess
  \/ SimulateCap

SpecAuto == Init /\ [][NextAuto]_vars

\* the driver thread and the simulation threads are daemon threads of one
\* interpreter, which gives each of them its turn
SpecAutoFair == SpecAuto /\ WF_vars(Together /\ AutoProcess) /\ WF_vars(SimulateCap)

(***************************************************************************)
(* Properties                                                              *)
(***************************************************************************)
ManualOps == {"api_process", "socket_start_processing"}

EnqueueOps == {"api_queue", "socket_add_to_queue"}

\* the caller was told, by a failure response or an exception, that the call failed
Rejected(r) == r.result \notin {"success", "returned", "started"}

\* the call returned what the callers of process_next_item treat as "queue empty"
QueueEmptySignal(r) == r.item = 0 /\ r.result \in {"No items in queue", "None"}

ItemRefs == 1 .. Len(items)

ProcessingRefs == {i \in ItemRefs : items[i].status = "processing"}

ActiveCount == Cardinality(DOMAIN active_processes)

\* C1: in every reachable state, whoever called ProcessNext, the active set
\* holds at most 3 items.
C1_ActiveWithinCap == ActiveCount <= AutoCap

\* C2: a manual ProcessNext call made while 3 started items are still
\* Processing and the queue is not empty returns ConcurrencyLimitReached,
\* starts no item and leaves the queue as it was.
C2_LimitReached ==
  [][ ( /\ resp'.op \in ManualOps
        /\ processing_queue # <<>>
        /\ ActiveCount >= AutoCap
        /\ \A id \in DOMAIN active_processes : active_processes[id] \in ProcessingRefs )
      => ( /\ resp'.result = "ConcurrencyLimitReached"
           /\ resp'.item = 0
           /\ processing_queue' = processing_queue ) ]_vars

\* C3: Enqueue of a known category with quantity >= 1 makes the queue longer
\* by exactly quantity, keeps the items queued before in place, and appends
\* the new items after them in creation order, each Queued with progress 0.
C3_EnqueueAppends ==
  [][ ( /\ resp'.op \in EnqueueOps
        /\ resp'.category \in CategoryIds
        /\ resp'.quantity >= 1 )
      => LET q == resp'.quantity
             old == Len(processing_queue)
         IN  /\ Len(items') = Len(items) + q
             /\ Len(processing_queue') = old + q
             /\ SubSeq(processing_queue', 1, old) = processing_queue
             /\ \A n \in 1 .. q :
                  /\ processing_queue'[old + n] = Len(items) + n
                  /\ items'[Len(items) + n].status = "queued"
                  /\ items'[Len(items) + n].progress = 0
                  /\ items'[Len(items) + n].category = resp'.category ]_vars

\* C3 witness: an Enqueue has appended its items behind an item queued before.
C3_Witness ==
  /\ resp.op \in EnqueueOps
  /\ resp.quantity >= 1
  /\ Len(processing_queue) > resp.quantity
  /\ \A n \in 1 .. Len(processing_queue) : items[processing_queue[n]].status = "queued"

\* C4: Enqueue of a known category with quantity < 1 is rejected and leaves
\* the queue length unchanged.
C4_InvalidQuantity ==
  [][ ( /\ resp'.op \in EnqueueOps
        /\ resp'.category \in CategoryIds
        /\ resp'.quantity < 1 )
      => ( /\ Rejected(resp')
           /\ Len(processing_queue') = Len(processing_queue) ) ]_vars

\* C5: Enqueue of an unknown category is rejected on both entry paths, for
\* every quantity, and changes nothing.
C5_UnknownCategory ==
  [][ ( /\ resp'.op \in EnqueueOps
        /\ resp'.category \notin CategoryIds )
      => ( /\ Rejected(resp')
           /\ UNCHANGED twin ) ]_vars

\* C6: a manual ProcessNext call on an empty queue returns the queue-empty
\* signal, starts nothing and changes neither the items, the active set, the
\* history, the material totals nor the system status.
C6_EmptyQueueNoEffect ==
  [][ ( /\ resp'.op \in ManualOps
        /\ processing_queue = <<>> )
      => ( /\ QueueEmptySignal(resp')
           /\ emitted' = <<>>
           /\ UNCHANGED twin ) ]_vars

\* C6 witness: ProcessNext has returned the queue-empty signal while an item
\* was in the active set and the system status was Processing.
C6_Witness ==
  /\ resp.op \in ManualOps
  /\ QueueEmptySignal(resp)
  /\ processing_queue = <<>>
  /\ ActiveCount >= 1
  /\ system_status = "processing"

\* C7: with one item enqueued in all and that item Processing, a second
\* manual ProcessNext call returns ConcurrencyLimitReached.
C7_SecondCallLimit ==
  [][ ( /\ resp'.op \in ManualOps
        /\ Len(items) = 1
        /\ items[1].status = "processing"
        /\ ActiveCount = 1 )
      => resp'.result = "ConcurrencyLimitReached" ]_vars

\* C8: an item is created Queued, and its status changes only from Queued to
\* Processing and from Processing to Completed.
C8_StatusTransitions ==
  [][ /\ Len(items') >= Len(items)
      /\ \A i \in 1 .. Len(items') :
           IF i <= Len(items)
             THEN \/ items'[i].status = items[i].status
                  \/ items[i].status = "queued" /\ items'[i].status = "processing"
                  \/ items[i].status = "processing" /\ items'[i].status = "completed"
             ELSE items'[i].status = "queued" ]_vars

\* C8 witness: an item has gone through to Completed while another one has
\* been started.
C8_Witness ==
  \E i, j \in ItemRefs :
    /\ items[i].status = "completed"
    /\ items[j].status = "processing"

\* C9: the progress of every item is within [0,100], is 100 whenever the item
\* is Completed, and does not decrease in a step that leaves the item Processing.
C9_Progress ==
  /\ [](\A i \in ItemRefs :
          /\ items[i].progress >= 0
          /\ items[i].progress <= 100
          /\ (items[i].status = "completed" => items[i].progress = 100))
  /\ [][ \A i \in ItemRefs :
           (items[i].status = "processing" /\ items'[i].status = "processing")
             => items'[i].progress >= items[i].progress ]_vars

\* C9 witness: one item is Completed at progress 100 while another one is
\* Processing part of the way.
C9_Witness ==
  \E i, j \in ItemRefs :
    /\ items[i].status = "completed"
    /\ items[i].progress = 100
    /\ items[j].status = "processing"
    /\ items[j].progress > 0
    /\ items[j].progress < 100

\* C10: in every reachable state, queue length + active count <= items ever
\* enqueued - items in the completed history.
C10_Conservation ==
  Len(processing_queue) + ActiveCount <= Len(items) - Len(processed_items)

\* the simulations that have run to their end
Done == {i \in ItemRefs : thread[i].pc = "done"}

\* what the simulations in refs added to the total of a material
RECURSIVE SumAdded(_, _)
SumAdded(refs, material) ==
  IF refs = {} THEN 0
  ELSE LET i == CHOOSE x \in refs : TRUE
           own == IF material \in DOMAIN thread[i].added
                    THEN thread[i].added[material] ELSE 0
       IN  own + SumAdded(refs \ {i}, material)

\* C11: once every item has completed, the total of each material is the sum
\* of the amounts the items added to it, whatever the interleaving of their
\* updates: no update is lost.
C11_NoLostUpdate ==
  (ItemRefs # {} /\ Done = ItemRefs)
    => \A material \in DOMAIN total_materials_recovered :
         total_materials_recovered[material] = SumAdded(ItemRefs, material)

\* the quantity of a material recorded in an item's materials_recovered
RecordedQuantity(i, material) ==
  IF /\ "materials_recovered" \in DOMAIN items[i]
     /\ material \in DOMAIN items[i].materials_recovered
    THEN items[i].materials_recovered[material]
    ELSE 0

\* C12: when a single item has been processed on a fresh system, each
\* material total is exactly the quantity recorded for that material in the
\* item's materials_recovered, and the totals of the materials the item does
\* not yield are still zero.
C12_TotalsMatchRecord ==
  (Len(items) = 1 /\ Done = {1})
    => \A material \in DOMAIN total_materials_recovered :
         total_materials_recovered[material] = RecordedQuantity(1, material)

\* C13: no step lowers or resets the cumulative total of any material, while
\* completions run concurrently or not.
C13_TotalsMonotone ==
  [][ \A material \in DOMAIN total_materials_recovered :
        total_materials_recovered'[material] >= total_materials_recovered[material] ]_vars

\* C14: in every state where the active set holds at least one item the
\* system status is "processing", in particular after one item completed
\* while another is still active.
C14_ActiveMeansProcessing ==
  active_processes # EmptyDict => system_status = "processing"

\* C15: in every state where the active set is empty the status is "idle"
\* exactly when the queue is empty and "ready" exactly when the queue is not
\* empty; so an Enqueue accepted by an idle system leaves it "ready".
C15_StatusWithoutActive ==
  active_processes = EmptyDict
    => /\ system_status = "idle" <=> processing_queue = <<>>
       /\ system_status = "ready" <=> processing_queue # <<>>

\* C16: no two items ever created carry the same id, whether they were
\* enqueued by one call or by different calls.
C16_UniqueIds ==
  \A i, j \in ItemRefs : i # j => items[i].id # items[j].id

\* the simulation of item i publishes a progress tick in this step
Tick(i) ==
  /\ thread[i].pc = "loop"
  /\ thread'[i].pc # "loop" \/ thread'[i].step # thread[i].step

\* C17: the events of an item come in the order queue change, processing
\* started, progress ticks, processing completed; so no progress tick of an
\* item started over /api/process or 'start_processing' is published while
\* the processing_started event of that item is still to be published.
C17_StartedBeforeTicks ==
  [][ \A i \in ItemRefs : Tick(i) => thread[i].pending = "" ]_vars

\* exactly two items were enqueued, both of one category, and both
\* simulations have run to their end
BothCompleted ==
  /\ Len(items) = 2
  /\ items[1].category = items[2].category
  /\ Done = {1, 2}

\* C18: after two items of one category were enqueued and started by two
\* ProcessNext calls, once both have completed, however their simulations
\* interleaved: two items are counted as completed, the active set and the
\* queue are empty, every material of the category has a total above zero
\* and the status is "idle".
C18_TwoItemScenario ==
  BothCompleted
    => /\ Len(processed_items) = 2
       /\ active_processes = EmptyDict
       /\ processing_queue = <<>>
       /\ \A material \in Range(MaterialsOf(1)) :
             /\ material \in DOMAIN total_materials_recovered
             /\ total_materials_recovered[material] > 0
       /\ system_status = "idle"

C18_Witness ==
  /\ BothCompleted
  /\ Len(processed_items) = 2
  /\ system_status = "idle"

StatsOps == {"api_stats", "socket_connect"}

\* C20: fetching the statistics, which computes the system statistics and
\* the category breakdown, changes nothing: the items, the queue, the
\* history, the active set, the totals, the status and the running
\* simulations are after the call what they were before it.
C20_GetStatsReadOnly ==
  [][ resp'.op \in StatsOps => UNCHANGED twin ]_vars

C20_Witness ==
  /\ resp.op \in StatsOps
  /\ resp.stats.total_processed = 1
  /\ resp.stats.active_processes = 1
  /\ processed_items # <<>>
  /\ active_processes # EmptyDict

\* the completed items counted by the breakdown of a snapshot
RECURSIVE BreakdownCount(_, _)
BreakdownCount(breakdown, cats) ==
  IF cats = {} THEN 0
  ELSE LET cat == CHOOSE x \in cats : TRUE
       IN  breakdown[cat].count + BreakdownCount(breakdown, cats \ {cat})

\* the numbers of a snapshot agree with the lists it carries
Consistent(stats) ==
  /\ stats.queue_length = Len(stats.processing_queue)
  /\ stats.active_processes = Cardinality(stats.active_items)
  /\ stats.total_processed = Len(stats.processed_items)
  /\ BreakdownCount(stats.categories_breakdown, CategoryIds) = stats.total_processed

\* C21: every snapshot of the statistics handed out while simulations and
\* calls run is the picture of one state: the queue length is the size of
\* the queue it lists, the active count the size of the active list, and the
\* counts of the breakdown add up to the total of completed items.
C21_SnapshotConsistent ==
  /\ "stats" \in DOMAIN resp => Consistent(resp.stats)
  /\ \A n \in 1 .. Len(emitted) :
        "stats" \in DOMAIN emitted[n] => Consistent(emitted[n].stats)

\* item i is in no entry of the active set
NotActive(i) == \A id \in DOMAIN active_processes : active_processes[id] # i

\* C22: nothing cancels a simulation: when the threads are scheduled fairly,
\* every item that enters the processing state is eventually completed, out
\* of the active set and in the history, whatever is enqueued or started
\* in the meantime.
C22_EventuallyCompleted ==
  \A i \in 1 .. MaxItems :
    (i \in ItemRefs /\ items[i].status = "processing")
      ~> ( /\ i \in ItemRefs
           /\ items[i].status = "completed"
           /\ NotActive(i)
           /\ \E n \in 1 .. Len(processed_items) : processed_items[n] = i )

C22_Witness ==
  /\ Len(items) = 2
  /\ items[1].status = "completed"
  /\ NotActive(1)
  /\ processed_items = <<1>>
  /\ items[2].status = "processing"

\* C23: when a simulation is ended by a fault, the entry of its item is out
\* of the active set: the slot it held is free again.
C23_AbortReleasesSlot ==
  \A i \in ItemRefs :
    thread[i].pc = "aborted" => items[i].id \notin DOMAIN active_processes

\* the events that tell the observers of a change of the queue
QueueChangedEvents == {"queue_updated", "system_stats"}

\* C24: every step that puts new items into the queue, on whichever entry
\* path, publishes a notification of the change to the observers, and the
\* items are in the queue when it is published.
C24_EnqueueNotifies ==
  [][ Len(items') > Len(items)
        => /\ \E n \in 1 .. Len(emitted') : emitted'[n].event \in QueueChangedEvents
           /\ Len(processing_queue') = Len(processing_queue) + Len(items') - Len(items) ]_vars

\* item i enters the processing state in this step
Starts(i) == items[i].status = "queued" /\ items'[i].status = "processing"

\* C25: whichever caller starts an item, over HTTP, over the socket or from
\* the background driver, a processing_started event is published for it.
C25_StartedPublished ==
  [][ \A i \in ItemRefs :
        Starts(i) => \E n \in 1 .. Len(emitted') :
                       emitted'[n] = [event |-> "processing_started", item |-> i] ]_vars

\* C26: a ProcessNext call that succeeds takes exactly the head off the
\* queue and leaves the rest in order, marks that item as processing with a
\* start time, registers it in the active set, whose size grows by one, and
\* returns the item while its simulation has yet to run.
C26_ProcessNextEffect ==
  [][ (resp'.op \in ManualOps /\ resp'.item # 0)
        => LET i == resp'.item
           IN  /\ processing_queue # <<>>
               /\ i = Head(processing_queue)
               /\ processing_queue' = Tail(processing_queue)
               /\ items'[i].status = "processing"
               /\ "start_time" \in DOMAIN items'[i]
               /\ items[i].id \in DOMAIN active_processes'
               /\ active_processes'[items[i].id] = i
               /\ Cardinality(DOMAIN active_processes') = ActiveCount + 1
               /\ thread'[i].pc = "loop" /\ thread'[i].step = 0 ]_vars

\* the simulation of item i has left its progress loop
PastLoop(i) == thread[i].pc \notin {"none", "loop", "stats", "aborted"}

\* C27: a simulation takes 20 steps and publishes 20 progress events per
\* item, the progress after step k being k/20 of 100.
C27_TwentyEvents ==
  \A i \in ItemRefs :
    /\ thread[i].ticks <= 20
    /\ PastLoop(i) => thread[i].ticks = 20
    /\ thread[i].ticks >= 1 => items[i].progress = Progress(thread[i].ticks)

\* C27 as the code has it: the loop runs total_steps + 1 times, for step 0 to
\* 20, and publishes one progress event each time, 21 per item; the k-th
\* event follows progress (k - 1)/20 of 100, so the first reports 0 and the
\* last 100.
C27_TwentyOneEvents ==
  \A i \in ItemRefs :
    /\ thread[i].ticks <= total_steps + 1
    /\ PastLoop(i) => thread[i].ticks = total_steps + 1
    /\ thread[i].ticks >= 1 => items[i].progress = Progress(thread[i].ticks - 1)

C27_Witness ==
  \E i \in ItemRefs :
    /\ PastLoop(i)
    /\ thread[i].ticks = total_steps + 1
    /\ items[i].progress = 100

\* C28: a step changes the queue in one of two ways only: an accepted
\* Enqueue appends the new items at the tail, and a successful ProcessNext
\* takes the head off; every other step, a completion, a progress tick, a
\* fetch of the statistics, a rejected call, leaves the queue as it is.
C28_QueueFrame ==
  [][ \/ /\ processing_queue' = processing_queue
         /\ Len(items') = Len(items)
         /\ \A i \in ItemRefs : ~Starts(i)
      \/ /\ resp'.op \in EnqueueOps
         /\ Len(items') > Len(items)
         /\ processing_queue' =
              processing_queue \o [n \in 1 .. Len(items') - Len(items) |-> Len(items) + n]
      \/ /\ resp'.op \in ManualOps \cup {"auto_process"}
         /\ resp'.item # 0
         /\ processing_queue # <<>>
         /\ Starts(Head(processing_queue))
         /\ processing_queue' = Tail(processing_queue) ]_vars

C28_Witness ==
  /\ resp.op = "api_stats"
  /\ processing_queue = <<2>>
  /\ items[1].status = "completed"

\* the items whose simulation has put them into the history (line 212)
Booked == {i \in ItemRefs : thread[i].pc \in {"remove", "status", "emit", "done"}}

\* no item is in the history twice, every entry is a completed item, and the
\* entries, counted by the statistics as the total, are the items booked
HistoryOnce ==
  /\ \A m, n \in 1 .. Len(processed_items) :
       m # n => processed_items[m] # processed_items[n]
  /\ \A n \in 1 .. Len(processed_items) :
       items[processed_items[n]].status = "completed"
  /\ {processed_items[n] : n \in 1 .. Len(processed_items)} = Booked
  /\ "stats" \in DOMAIN resp => resp.stats.total_processed = Cardinality(Booked)

\* C29: the history holds every item that has completed and been booked
\* exactly once: no item is in it twice, every entry is a completed item, its
\* length, which the statistics report as the total, is the number of items
\* booked, and a step only ever appends to it.
C29_HistoryOnce ==
  /\ []HistoryOnce
  /\ [][ /\ Len(processed_items') >= Len(processed_items)
          /\ \A n \in 1 .. Len(processed_items) :
               processed_items'[n] = processed_items[n] ]_vars

C29_Witness ==
  /\ processed_items = <<2, 1>>
  /\ Booked = {1, 2}
  /\ NotActive(1)
  /\ NotActive(2)

\* C30: the materials_recovered of every completed item has exactly the
\* materials of the item's category in the catalog as its keys, and no
\* quantity in it is below zero; every item of the history has one.
C30_RecoveredKeys ==
  /\ \A i \in ItemRefs :
       "materials_recovered" \in DOMAIN items[i]
         => /\ items[i].status = "completed"
            /\ DOMAIN items[i].materials_recovered =
                 Range(EWASTE_CATEGORIES[items[i].category].materials)
            /\ \A material \in DOMAIN items[i].materials_recovered :
                 items[i].materials_recovered[material] >= 0
  /\ \A n \in 1 .. Len(processed_items) :
       "materials_recovered" \in DOMAIN items[processed_items[n]]

C30_Witness ==
  \E i \in ItemRefs :
    /\ items[i].category = "monitor"
    /\ "materials_recovered" \in DOMAIN items[i]
    /\ DOMAIN items[i].materials_recovered = {"glass", "plastic", "copper", "lead"}
    /\ processed_items # <<>>

\* the fields that record the result of a simulation
ResultFields == {"materials_recovered", "recovery_efficiency", "end_time"}

\* C31: an item that is queued or being processed carries no recovered
\* materials, no recovery efficiency and no end time: these fields are on
\* completed items only.
C31_ResultFieldsOnCompleted ==
  \A i \in ItemRefs :
    items[i].status \in {"queued", "processing"}
      => DOMAIN items[i] \cap ResultFields = {}

C31_Witness ==
  \E i, j \in ItemRefs :
    /\ items[i].status = "completed"
    /\ ResultFields \subseteq DOMAIN items[i]
    /\ items[j].status = "processing"
    /\ items[j].progress = 100
    /\ DOMAIN items[j] \cap ResultFields = {}

\* the items in the queue, in the active set or in the history
Located ==
  Range(processing_queue) \cup Range(processed_items)
    \cup {active_processes[id] : id \in DOMAIN active_processes}

\* C32: the category of every item in the queue, in the active set or in the
\* history is a key of the catalog, whatever categories the callers send.
C32_KnownCategories ==
  \A i \in Located : items[i].category \in DOMAIN EWASTE_CATEGORIES

C32_Witness ==
  /\ resp.op = "socket_add_to_queue"
  /\ resp.category = UnknownCategory
  /\ resp.quantity >= 1
  /\ Located # {}

\* the amounts of a material recorded by the items of a category among the
\* first n items of a history
RECURSIVE RecordedAmount(_, _, _, _)
RecordedAmount(history, category, material, n) ==
  IF n = 0 THEN 0
  ELSE RecordedAmount(history, category, material, n - 1)
         + (IF /\ history[n].category = category
               /\ material \in DOMAIN history[n].materials_recovered
              THEN history[n].materials_recovered[material]
              ELSE 0)

\* the breakdown of a snapshot describes the history and the total of the
\* snapshot
BreakdownAgrees(stats) ==
  LET breakdown == stats.categories_breakdown
      history == stats.processed_items
      of(cat) == {n \in 1 .. Len(history) : history[n].category = cat}
  IN  /\ DOMAIN breakdown = DOMAIN EWASTE_CATEGORIES
      /\ \A cat \in DOMAIN breakdown :
            /\ breakdown[cat].count = Cardinality(of(cat))
            /\ \A material \in DOMAIN breakdown[cat].total_materials :
                  breakdown[cat].total_materials[material]
                    = RecordedAmount(history, cat, material, Len(history))
            /\ \A n \in of(cat) :
                  DOMAIN history[n].materials_recovered
                    \subseteq DOMAIN breakdown[cat].total_materials
      /\ BreakdownCount(breakdown, DOMAIN breakdown) = stats.total_processed

\* C33: the breakdown of every statistics snapshot has an entry for every
\* category of the catalog, counts the history items of each category, sums
\* their recovered quantities per material, and its counts add up to the
\* total of completed items reported next to it.
C33_BreakdownAgrees ==
  /\ "stats" \in DOMAIN resp => BreakdownAgrees(resp.stats)
  /\ \A n \in 1 .. Len(emitted) :
        "stats" \in DOMAIN emitted[n] => BreakdownAgrees(emitted[n].stats)

\* two times in seconds fall on the same day
SameDay(a, b) ==
  \E day \in 0 .. MaxDays : /\ day * 86400 <= a /\ a < (day + 1) * 86400
                            /\ day * 86400 <= b /\ b < (day + 1) * 86400

\* the items of the history that were created on the current day
CreatedToday == {n \in 1 .. Len(processed_items) :
                   SameDay(items[processed_items[n]].timestamp, clock)}

\* C34: completed_today in the statistics is the number of history items
\* whose creation day is the current day, and is at most total_processed;
\* an item created on one day and completed on the next is not counted.
C34_CompletedToday ==
  resp.op = "api_stats" =>
    /\ resp.stats.completed_today = Cardinality(CreatedToday)
    /\ resp.stats.completed_today <= resp.stats.total_processed
    /\ \A n \in 1 .. Len(processed_items) :
          LET item == items[processed_items[n]]
          IN  (~SameDay(item.timestamp, item.end_time) /\ SameDay(item.end_time, clock))
                => n \notin CreatedToday

C34_Witness ==
  /\ resp.op = "api_stats"
  /\ resp.stats.total_processed = 2
  /\ resp.stats.completed_today = 1
  /\ \E n \in 1 .. Len(processed_items) :
        LET item == items[processed_items[n]]
        IN  /\ item.timestamp = 43200
            /\ ~SameDay(item.timestamp, item.end_time)
            /\ SameDay(item.end_time, clock)

\* the items of the active set
ActiveRefs == {active_processes[id] : id \in DOMAIN active_processes}

\* C36: where an item is and what its status says agree in every state, the
\* states in the middle of a completing simulation included: the items of
\* the queue are queued with progress 0, those of the active set are being
\* processed, those of the history are completed, and no item is in two of
\* the three places.
C36_LocationMatchesStatus ==
  /\ \A i \in Range(processing_queue) :
        items[i].status = "queued" /\ items[i].progress = 0
  /\ \A i \in ActiveRefs : items[i].status = "processing"
  /\ \A i \in Range(processed_items) : items[i].status = "completed"
  /\ Range(processing_queue) \cap ActiveRefs = {}
  /\ Range(processing_queue) \cap Range(processed_items) = {}
  /\ ActiveRefs \cap Range(processed_items) = {}

\* the processing_complete events for item i among the events of the last step
CompleteEvents(i) ==
  {n \in 1 .. Len(emitted) :
     emitted[n].event = "processing_complete" /\ emitted[n].item = i}

\* item i is completed and booked: in the history once, out of the active
\* set, its quantities added to the totals, and counted by the statistics
Counted(i) ==
  /\ items[i].status = "completed"
  /\ Cardinality({n \in 1 .. Len(processed_items) : processed_items[n] = i}) = 1
  /\ NotActive(i)
  /\ DOMAIN thread[i].added = Range(MaterialsOf(i))
  /\ Range(MaterialsOf(i)) \subseteq DOMAIN get_system_stats.total_materials_recovered
  /\ get_system_stats.total_processed >= 1
  /\ get_system_stats.categories_breakdown[items[i].category].count >= 1
  /\ \E n \in 1 .. Len(get_system_stats.processed_items) :
        get_system_stats.processed_items[n] = items[i]

\* C39: the simulation of an item emits processing_complete exactly once, in
\* its last step, and at that moment the item is completed, in the history,
\* out of the active set, its quantities are added to the totals and the
\* statistics count it.
C39_CompleteLast ==
  [][ \A i \in ItemRefs :
        /\ CompleteEvents(i)' # {}
              => /\ Cardinality(CompleteEvents(i)') = 1
                 /\ thread[i].pc = "emit"
                 /\ thread'[i].pc = "done"
                 /\ Counted(i)
                 /\ Counted(i)'
        /\ (thread[i].pc # "done" /\ thread'[i].pc = "done")
              => CompleteEvents(i)' # {} ]_vars

C39_Witness ==
  /\ CompleteEvents(1) # {}
  /\ thread[1].pc = "done"
  /\ Counted(1)
  /\ Len(items) = 2
  /\ items[2].status = "processing"

\* the simulation thread of item i takes this step
SimulationStep(i) == thread[i].pc # "none" /\ thread'[i] # thread[i]

\* the fields of its item that a simulation writes (lines 189, 207-210)
SimulationFields == {"status", "progress", "end_time", "materials_recovered",
                     "recovery_efficiency"}

\* C40: a step of the simulation of an item changes no field of any other
\* item, queued, active or completed, and of its own item only the status,
\* the progress, the end time and the recovery fields, however the
\* simulations interleave.
C40_OwnItemOnly ==
  [][ \A i \in ItemRefs :
        SimulationStep(i)
          => /\ Len(items') = Len(items)
             /\ \A j \in ItemRefs \ {i} : items'[j] = items[j]
             /\ \A field \in DOMAIN items[i] \ SimulationFields :
                   /\ field \in DOMAIN items'[i]
                   /\ items'[i][field] = items[i][field] ]_vars

C40_Witness ==
  /\ Len(items) = 2
  /\ items[1].id = items[2].id
  /\ items[1].status = "completed"
  /\ thread[1].pc = "done"
  /\ items[2].status = "processing"
  /\ items[2].progress = 50
  /\ active_processes = EmptyDict

\* C38: the background driver starts an item only when it finds the queue
\* non-empty and fewer than 3 items active, and while it is the only caller
\* of process_next_item the active set never holds more than 3 items.
C38_AutoKeepsCap ==
  /\ [](ActiveCount <= AutoCap)
  /\ [][ \A i \in ItemRefs :
           Starts(i) => /\ processing_queue # <<>>
                        /\ i = Head(processing_queue)
                        /\ ActiveCount < AutoCap
                        /\ resp'.op = "auto_process" ]_vars

C38_Witness ==
  /\ resp.op = "auto_process"
  /\ resp.result = "skipped"
  /\ processing_queue # <<>>
  /\ ActiveCount = AutoCap
  /\ Cardinality(ProcessingRefs) = AutoCap

\* nothing waits and nothing runs
Drained == processing_queue = <<>> /\ active_processes = EmptyDict

\* C35: with the background driver and the simulations scheduled fairly and
\* nobody calling ProcessNext by hand, every item enqueued is eventually
\* started and eventually completed, and once no more items are enqueued
\* the queue and the active set end up empty for good.
C35_AutoDrains ==
  /\ \A i \in 1 .. MaxItemsCap :
        (i \in ItemRefs)
          ~> ( /\ i \in ItemRefs
               /\ "start_time" \in DOMAIN items[i]
               /\ items[i].status = "completed" )
  /\ <>[]Drained

C35_Witness ==
  /\ Len(items) = MaxItemsCap
  /\ \A i \in ItemRefs : items[i].status = "completed"
  /\ Drained
  /\ resp.op = "auto_process"

\* C37: when a request handler and the background driver call ProcessNext
\* at the same time, no call ends in an exception and no item is started a
\* second time: with one item waiting, one caller gets it and the other is
\* told that the queue is empty.
C37_ConcurrentProcessNext ==
  /\ [](resp.result # "IndexError")
  /\ [][ \A i \in ItemRefs :
           thread[i].pc # "none" => thread'[i].pc # "none" /\ ~Starts(i) ]_vars

====
